---- MODULE Spec2Model ----
(***************************************************************************)
(* Model of the home energy tracker (src/one.py): the consumption          *)
(* estimator, the advisory tips, the CSV record store and the analytics    *)
(* that main() computes over the loaded table.                             *)
(*                                                                         *)
(* Numbers.  The program computes in binary floating point.  The model     *)
(* computes the same quantities exactly, in fixed point:                   *)
(*   - the additive base before the solar step is a multiple of 0.1 kWh    *)
(*     and is held in tenths;                                              *)
(*   - the base after the solar step is a multiple of 0.01 kWh and is      *)
(*     held in hundredths;                                                 *)
(*   - the duration factor duration/8 makes it a multiple of 1/800 kWh;    *)
(*   - the returned value has 2 decimals and is held in hundredths.        *)
(* round(x, 2) rounds the double x to the nearest hundredth.  When the     *)
(* exact value is not halfway between two hundredths the double is on the  *)
(* same side as the exact value.  When the exact value is halfway, the     *)
(* side the double falls on is decided by the accumulated binary error of  *)
(* the products with 0.1, 0.2 and 0.6, which the fixed-point model does    *)
(* not represent: there the model allows both neighbours.                  *)
(***************************************************************************)
EXTENDS Integers, Sequences, FiniteSets

VARIABLES
    file,         \* the CSV file: whether it exists, its header and its lines of text
    pc,           \* per session: position in main()
    inp,          \* per session: the sidebar widget values
    consumption,  \* per session: main's `consumption` (hundredths of kWh)
    tip,          \* per session: main's `tip`
    csv_df,       \* per session: save_to_csv's local `df` after read_csv
    df,           \* per session: main's `df` = load_data()
    view,         \* per session: what the main content area evaluated
    saved         \* history: the data dicts whose save_to_csv completed

vars == <<file, pc, inp, consumption, tip, csv_df, df, view, saved>>

Sessions == {1, 2}

Min(a, b) == IF a < b THEN a ELSE b
Max(a, b) == IF a > b THEN a ELSE b

(***************************************************************************)
(* Widget ranges of the sidebar.                                           *)
(***************************************************************************)
HomeTypes == {"1BHK", "2BHK", "3BHK", "4BHK+"}
FamilySizeMin == 1
FamilySizeMax == 10
TempMin == 15
TempMax == 45
DurationMin == 1
DurationMax == 24

(***************************************************************************)
(* calculate_consumption                                                   *)
(***************************************************************************)
\* home_multipliers.get(home_type, 1.0), in tenths
home_multipliers(home_type) ==
    CASE home_type = "1BHK" -> 10
      [] home_type = "2BHK" -> 15
      [] home_type = "3BHK" -> 20
      [] home_type = "4BHK+" -> 25
      [] OTHER -> 10

\* 3 + max(0, temp - 25) * 0.2, in tenths
ac_consumption(temp) == 30 + Max(0, temp - 25) * 2

\* 2 + max(0, temp - 20) * 0.1, in tenths
fridge_consumption(temp) == 20 + Max(0, temp - 20)

\* base_consumption before the solar step, in tenths
AdditiveBase(ac_use, fridge_use, wm_use, home_type, family_size, temp) ==
    home_multipliers(home_type) * 2
    + family_size * 5
    + (IF ac_use THEN ac_consumption(temp) ELSE 0)
    + (IF fridge_use THEN fridge_consumption(temp) ELSE 0)
    + (IF wm_use THEN 40 ELSE 0)

\* the solar reduction without its cap of 10
SolarReduction_uncapped(base) == base * 6

\* min(base_consumption * 0.6, 10), in hundredths, of a base in tenths
SolarReduction(base) == Min(base * 6, 1000)

\* base_consumption after the solar step, in hundredths
AfterSolar(ac_use, fridge_use, wm_use, solar_use, home_type, family_size, temp) ==
    LET base == AdditiveBase(ac_use, fridge_use, wm_use, home_type, family_size, temp)
    IN  IF solar_use THEN base * 10 - SolarReduction(base) ELSE base * 10

\* the duration factor inverted: 8 / duration
DurationScaled_inverted(h, duration) == (h * 64) \div duration

\* base_consumption *= (duration / 8): the numerator, over the denominator 8
DurationScaled(h, duration) == h * duration

\* round(x, 2) of x = n8/8 hundredths: the values the call may return
Round2(n8) ==
    LET q == n8 \div 8
        r == n8 % 8
    IN  IF r < 4 THEN {q}
        ELSE IF r > 4 THEN {q + 1}
        ELSE {q, q + 1}

\* max(0, x): python returns x only when x > 0
Clamp0(x) == IF x > 0 THEN x ELSE 0

\* the solar step subtracting the larger of 60% and 10, and no final max(0, .)
calculate_consumption_unclamped(ac_use, fridge_use, wm_use, solar_use, home_type, family_size, temp, duration) ==
    LET base == AdditiveBase(ac_use, fridge_use, wm_use, home_type, family_size, temp)
        h == IF solar_use THEN base * 10 - Max(base * 6, 1000) ELSE base * 10
    IN  { (h * duration) \div 8 }

\* the values calculate_consumption may return, in hundredths of kWh
calculate_consumption(ac_use, fridge_use, wm_use, solar_use, home_type, family_size, temp, duration) ==
    LET h == AfterSolar(ac_use, fridge_use, wm_use, solar_use, home_type, family_size, temp)
    IN  { Clamp0(r) : r \in Round2(DurationScaled(h, duration)) }

(***************************************************************************)
(* get_energy_tips                                                         *)
(***************************************************************************)
TipHigh == "High consumption! Consider using solar panels, LED bulbs, and energy-efficient appliances."
TipModerate == "Moderate consumption. Try to use AC wisely and unplug unused devices."
TipLow == "Great job! You're maintaining low energy consumption."

\* the moderate band starting at 10 inclusive
get_energy_tips_inclusive(c) ==
    IF c > 1500 THEN TipHigh
    ELSE IF c >= 1000 THEN TipModerate
    ELSE TipLow

get_energy_tips(c) ==
    IF c > 1500 THEN TipHigh
    ELSE IF c > 1000 THEN TipModerate
    ELSE TipLow

(***************************************************************************)
(* CSV text.  A cell is a string (Date, Day, Home_Type, and the booleans   *)
(* as pandas writes them) or, for a number, the sequence of its            *)
(* characters.                                                             *)
(***************************************************************************)
\* no file at CSV_FILE
Absent == [exists |-> FALSE, header |-> <<>>, lines |-> <<>>]

\* os.path.exists(CSV_FILE)
Exists(f) == f.exists

COLUMNS == <<"Date", "Day", "AC_Usage", "Fridge_Usage", "Washing_Machine_Usage",
             "Solar_Usage", "Total_Consumption", "Home_Type", "Family_Size",
             "Outside_Temperature", "Usage_Duration_Hours">>

DigitChars == <<"0", "1", "2", "3", "4", "5", "6", "7", "8", "9">>
DigitChar(d) == DigitChars[d + 1]
DigitVal(c) == CHOOSE d \in 0..9 : DigitChars[d + 1] = c

\* to_csv of an integer cell: its decimal digits
RECURSIVE FormatInt(_)
FormatInt(n) ==
    IF n < 10 THEN <<DigitChar(n)>>
    ELSE Append(FormatInt(n \div 10), DigitChar(n % 10))

\* read_csv of an integer cell
RECURSIVE ParseInt(_)
ParseInt(t) ==
    IF Len(t) = 0 THEN 0
    ELSE ParseInt(SubSeq(t, 1, Len(t) - 1)) * 10 + DigitVal(t[Len(t)])

\* a float cell written with one decimal only
FormatFloat_one_decimal(h) ==
    FormatInt(h \div 100) \o <<".">> \o <<DigitChar((h % 100) \div 10)>>

\* to_csv of a float cell holding a 2-decimal value (h hundredths): the
\* shortest text that reads back to it, with at least one decimal
FormatFloat(h) ==
    LET f == h % 100
        frac == IF f % 10 = 0 THEN <<DigitChar(f \div 10)>>
                ELSE <<DigitChar(f \div 10), DigitChar(f % 10)>>
    IN  FormatInt(h \div 100) \o <<".">> \o frac

\* read_csv of a float cell, to hundredths
ParseFloat(t) ==
    LET dot == CHOOSE i \in 1..Len(t) : t[i] = "."
        ip == ParseInt(SubSeq(t, 1, dot - 1))
        fr == SubSeq(t, dot + 1, Len(t))
    IN  ip * 100 + (IF Len(fr) = 1 THEN ParseInt(fr) * 10 ELSE ParseInt(fr))

\* to_csv of a boolean cell
FormatBool(b) == IF b THEN "True" ELSE "False"

\* read_csv of a column of True/False cells
ParseBool(t) == t \in {"True", "TRUE", "true"}

\* one table row as to_csv writes it
FormatRow(r) ==
    [Date |-> r.Date,
     Day |-> r.Day,
     AC_Usage |-> FormatBool(r.AC_Usage),
     Fridge_Usage |-> FormatBool(r.Fridge_Usage),
     Washing_Machine_Usage |-> FormatBool(r.Washing_Machine_Usage),
     Solar_Usage |-> FormatBool(r.Solar_Usage),
     Total_Consumption |-> FormatFloat(r.Total_Consumption),
     Home_Type |-> r.Home_Type,
     Family_Size |-> FormatInt(r.Family_Size),
     Outside_Temperature |-> FormatInt(r.Outside_Temperature),
     Usage_Duration_Hours |-> FormatInt(r.Usage_Duration_Hours)]

\* one CSV line as read_csv reads it
ParseRow(l) ==
    [Date |-> l.Date,
     Day |-> l.Day,
     AC_Usage |-> ParseBool(l.AC_Usage),
     Fridge_Usage |-> ParseBool(l.Fridge_Usage),
     Washing_Machine_Usage |-> ParseBool(l.Washing_Machine_Usage),
     Solar_Usage |-> ParseBool(l.Solar_Usage),
     Total_Consumption |-> ParseFloat(l.Total_Consumption),
     Home_Type |-> l.Home_Type,
     Family_Size |-> ParseInt(l.Family_Size),
     Outside_Temperature |-> ParseInt(l.Outside_Temperature),
     Usage_Duration_Hours |-> ParseInt(l.Usage_Duration_Hours)]

\* DataFrame.to_csv(CSV_FILE, index=False): the file it leaves
to_csv(frame) ==
    [exists |-> TRUE,
     header |-> frame.columns,
     lines |-> [i \in 1..Len(frame.rows) |-> FormatRow(frame.rows[i])]]

\* pd.read_csv(CSV_FILE) of an existing file
read_csv(f) ==
    [columns |-> f.header,
     rows |-> [i \in 1..Len(f.lines) |-> ParseRow(f.lines[i])]]

\* pd.DataFrame()
EmptyFrame == [columns |-> <<>>, rows |-> <<>>]

\* pd.concat([df, pd.DataFrame([data])], ignore_index=True)
concat(frame, data) ==
    [columns |-> frame.columns, rows |-> Append(frame.rows, data)]

\* load_data()
load_data(f) == IF Exists(f) THEN read_csv(f) ELSE EmptyFrame

\* a table counted as empty up to one row
IsEmpty_off_by_one(frame) == Len(frame.rows) <= 1

\* DataFrame.empty
IsEmpty(frame) == Len(frame.rows) = 0

(***************************************************************************)
(* main(): one script run per session, step by step.                       *)
(***************************************************************************)
MaxRows == 3    \* saves started, over all sessions

\* selected_date.strftime("%Y-%m-%d") of the dates the runs choose from
Dates == {"2024-01-01", "2024-01-02"}

\* selected_date.strftime("%A")
day_of_week(date) ==
    CASE date = "2024-01-01" -> "Monday"
      [] date = "2024-01-02" -> "Tuesday"

Widget(date, ac, fr, wm, so, ht, fs, temp, dur) ==
    [selected_date |-> date, ac_use |-> ac, fridge_use |-> fr, wm_use |-> wm,
     solar_use |-> so, home_type |-> ht, family_size |-> fs,
     outside_temp |-> temp, usage_duration |-> dur]

\* the widget defaults: today, first home type, 4, 30, 8, nothing ticked
DefaultWidgets == Widget("2024-01-01", FALSE, FALSE, FALSE, FALSE, "1BHK", 4, 30, 8)

\* the widget values the runs of main choose from
SampleWidgets ==
    { Widget(d, w[1], w[2], w[3], w[4], w[5], w[6], w[7], w[8]) :
        d \in Dates,
        w \in { <<FALSE, FALSE, TRUE, FALSE, "3BHK", 4, 30, 8>>,     \* 10.0
                <<TRUE, TRUE, FALSE, TRUE, "2BHK", 4, 30, 8>>,       \* 4.8
                <<FALSE, FALSE, TRUE, TRUE, "1BHK", 1, 15, 1>> } }   \* 0.325

\* the widget values two concurrent sessions choose from
ConcWidgets ==
    { Widget("2024-01-01", FALSE, FALSE, TRUE, FALSE, "3BHK", 4, 30, 8),
      Widget("2024-01-02", TRUE, TRUE, FALSE, TRUE, "2BHK", 4, 30, 8) }

\* the electricity rates the runs choose from, in hundredths (slider 3.0 to 10.0)
Rates == {300, 600, 1000}

\* calculate_consumption on the widget values, as main calls it
Estimates(w) ==
    calculate_consumption(w.ac_use, w.fridge_use, w.wm_use, w.solar_use,
                          w.home_type, w.family_size, w.outside_temp, w.usage_duration)

\* the data dict with Family_Size and Usage_Duration_Hours exchanged
DataOf_swapped(w, c) ==
    [Date |-> w.selected_date,
     Day |-> day_of_week(w.selected_date),
     AC_Usage |-> w.ac_use,
     Fridge_Usage |-> w.fridge_use,
     Washing_Machine_Usage |-> w.wm_use,
     Solar_Usage |-> w.solar_use,
     Total_Consumption |-> c,
     Home_Type |-> w.home_type,
     Family_Size |-> w.usage_duration,
     Outside_Temperature |-> w.outside_temp,
     Usage_Duration_Hours |-> w.family_size]

\* the `data` dict main passes to save_to_csv
DataOf(w, c) ==
    [Date |-> w.selected_date,
     Day |-> day_of_week(w.selected_date),
     AC_Usage |-> w.ac_use,
     Fridge_Usage |-> w.fridge_use,
     Washing_Machine_Usage |-> w.wm_use,
     Solar_Usage |-> w.solar_use,
     Total_Consumption |-> c,
     Home_Type |-> w.home_type,
     Family_Size |-> w.family_size,
     Outside_Temperature |-> w.outside_temp,
     Usage_Duration_Hours |-> w.usage_duration]

RECURSIVE SumSeq(_)
SumSeq(q) == IF Len(q) = 0 THEN 0 ELSE q[1] + SumSeq(Tail(q))

RECURSIVE MaxSeq(_)
MaxSeq(q) == IF Len(q) = 1 THEN q[1] ELSE Max(q[1], MaxSeq(Tail(q)))

\* df['Total_Consumption']
TotalColumn(frame) == [i \in 1..Len(frame.rows) |-> frame.rows[i].Total_Consumption]

\* daily_cost = df['Total_Consumption'] * electricity_rate, in 1/10000
DailyCost(frame, rate) == [i \in 1..Len(frame.rows) |-> TotalColumn(frame)[i] * rate]

\* the monthly cost without the division by len(df)
MonthlyCost_undivided(frame, rate) ==
    [num |-> SumSeq(DailyCost(frame, rate)) * 30, den |-> 1]

\* monthly_cost = daily_cost.sum() * (30 / len(df)), as a fraction
MonthlyCost(frame, rate) ==
    [num |-> SumSeq(DailyCost(frame, rate)) * 30, den |-> Len(frame.rows)]

\* yearly_cost = monthly_cost * 12, as a fraction
YearlyCost(frame, rate) ==
    [num |-> MonthlyCost(frame, rate).num * 12, den |-> MonthlyCost(frame, rate).den]

\* what the `if not df.empty:` branch of main evaluates
Analytics(frame, rate) ==
    [branch |-> "analytics",
     avg_consumption |-> [num |-> SumSeq(TotalColumn(frame)), den |-> Len(frame.rows)],
     total_consumption |-> SumSeq(TotalColumn(frame)),
     max_consumption |-> MaxSeq(TotalColumn(frame)),
     days_tracked |-> Len(frame.rows),
     electricity_rate |-> rate,
     daily_cost |-> DailyCost(frame, rate),
     monthly_cost |-> MonthlyCost(frame, rate),
     yearly_cost |-> YearlyCost(frame, rate)]

NoData == [branch |-> "nodata"]
NoView == [branch |-> "none"]

InFlight == Cardinality({s \in Sessions : pc[s] \in {"save_read", "save_write"}})

Init ==
    /\ file = Absent
    /\ pc = [s \in Sessions |-> "start"]
    /\ inp = [s \in Sessions |-> DefaultWidgets]
    /\ consumption = [s \in Sessions |-> 0]
    /\ tip = [s \in Sessions |-> ""]
    /\ csv_df = [s \in Sessions |-> EmptyFrame]
    /\ df = [s \in Sessions |-> EmptyFrame]
    /\ view = [s \in Sessions |-> NoView]
    /\ saved = <<>>

\* the file created without its column header
initialize_csv_no_header(s) ==
    /\ pc[s] = "start"
    /\ file' = IF ~Exists(file) THEN to_csv(EmptyFrame) ELSE file
    /\ pc' = [pc EXCEPT ![s] = "widgets"]
    /\ UNCHANGED <<inp, consumption, tip, csv_df, df, view, saved>>

\* initialize_csv()
initialize_csv(s) ==
    /\ pc[s] = "start"
    /\ file' = IF ~Exists(file) THEN to_csv([columns |-> COLUMNS, rows |-> <<>>]) ELSE file
    /\ pc' = [pc EXCEPT ![s] = "widgets"]
    /\ UNCHANGED <<inp, consumption, tip, csv_df, df, view, saved>>

\* the sidebar widgets return the user's values
Widgets(s, choices) ==
    /\ pc[s] = "widgets"
    /\ \E w \in choices : inp' = [inp EXCEPT ![s] = w]
    /\ pc' = [pc EXCEPT ![s] = "estimate"]
    /\ UNCHANGED <<file, consumption, tip, csv_df, df, view, saved>>

\* consumption = calculate_consumption(...); tip = get_energy_tips(consumption)
Estimate(s) ==
    /\ pc[s] = "estimate"
    /\ \E c \in Estimates(inp[s]) :
          /\ consumption' = [consumption EXCEPT ![s] = c]
          /\ tip' = [tip EXCEPT ![s] = get_energy_tips(c)]
    /\ pc' = [pc EXCEPT ![s] = "button"]
    /\ UNCHANGED <<file, inp, csv_df, df, view, saved>>

\* st.button(...) returns True: main builds data and calls save_to_csv
ClickSave(s) ==
    /\ pc[s] = "button"
    /\ Len(saved) + InFlight < MaxRows
    /\ pc' = [pc EXCEPT ![s] = "save_read"]
    /\ UNCHANGED <<file, inp, consumption, tip, csv_df, df, view, saved>>

\* st.button(...) returns False
NoClick(s) ==
    /\ pc[s] = "button"
    /\ pc' = [pc EXCEPT ![s] = "load"]
    /\ UNCHANGED <<file, inp, consumption, tip, csv_df, df, view, saved>>

\* save_to_csv: df = pd.read_csv(CSV_FILE); a missing file raises
SaveRead(s) ==
    /\ pc[s] = "save_read"
    /\ IF ~Exists(file)
       THEN /\ pc' = [pc EXCEPT ![s] = "error"]
            /\ UNCHANGED csv_df
       ELSE /\ csv_df' = [csv_df EXCEPT ![s] = read_csv(file)]
            /\ pc' = [pc EXCEPT ![s] = "save_write"]
    /\ UNCHANGED <<file, inp, consumption, tip, df, view, saved>>

\* the write appending to the table as it is at the time of the write
SaveWrite_reread(s) ==
    /\ pc[s] = "save_write"
    /\ file' = to_csv(concat(read_csv(file), DataOf(inp[s], consumption[s])))
    /\ saved' = Append(saved, DataOf(inp[s], consumption[s]))
    /\ pc' = [pc EXCEPT ![s] = "load"]
    /\ UNCHANGED <<inp, consumption, tip, csv_df, df, view>>

\* save_to_csv: concat the new row and write the whole table back
SaveWrite(s) ==
    /\ pc[s] = "save_write"
    /\ file' = to_csv(concat(csv_df[s], DataOf(inp[s], consumption[s])))
    /\ saved' = Append(saved, DataOf(inp[s], consumption[s]))
    /\ pc' = [pc EXCEPT ![s] = "load"]
    /\ UNCHANGED <<inp, consumption, tip, csv_df, df, view>>

\* df = load_data()
Load(s) ==
    /\ pc[s] = "load"
    /\ df' = [df EXCEPT ![s] = load_data(file)]
    /\ pc' = [pc EXCEPT ![s] = "content"]
    /\ UNCHANGED <<file, inp, consumption, tip, csv_df, view, saved>>

\* if not df.empty: metrics and cost analysis
ShowAnalytics(s) ==
    /\ pc[s] = "content"
    /\ ~IsEmpty(df[s])
    /\ \E rate \in Rates : view' = [view EXCEPT ![s] = Analytics(df[s], rate)]
    /\ pc' = [pc EXCEPT ![s] = "done"]
    /\ UNCHANGED <<file, inp, consumption, tip, csv_df, df, saved>>

\* else: the no-data message and the sample chart
ShowNoData(s) ==
    /\ pc[s] = "content"
    /\ IsEmpty(df[s])
    /\ view' = [view EXCEPT ![s] = NoData]
    /\ pc' = [pc EXCEPT ![s] = "done"]
    /\ UNCHANGED <<file, inp, consumption, tip, csv_df, df, saved>>

\* the next interaction runs the script again from the top
Rerun(s) ==
    /\ pc[s] \in {"done", "error"}
    /\ pc' = [pc EXCEPT ![s] = "start"]
    /\ inp' = [inp EXCEPT ![s] = DefaultWidgets]
    /\ consumption' = [consumption EXCEPT ![s] = 0]
    /\ tip' = [tip EXCEPT ![s] = ""]
    /\ csv_df' = [csv_df EXCEPT ![s] = EmptyFrame]
    /\ df' = [df EXCEPT ![s] = EmptyFrame]
    /\ view' = [view EXCEPT ![s] = NoView]
    /\ UNCHANGED <<file, saved>>

\* the file is removed from outside the program
ExternalDelete ==
    /\ Exists(file)
    /\ file' = Absent
    /\ UNCHANGED <<pc, inp, consumption, tip, csv_df, df, view, saved>>

Step(s, choices) ==
    \/ initialize_csv(s)
    \/ Widgets(s, choices)
    \/ Estimate(s)
    \/ ClickSave(s)
    \/ NoClick(s)
    \/ SaveRead(s)
    \/ SaveWrite(s)
    \/ Load(s)
    \/ ShowAnalytics(s)
    \/ ShowNoData(s)
    \/ Rerun(s)

\* one interactive session at a time
Next == Step(1, SampleWidgets)
Spec == Init /\ [][Next]_vars

\* two sessions on the same file
NextConc == \E s \in Sessions : Step(s, ConcWidgets)
SpecConc == Init /\ [][NextConc]_vars

\* one session, and the file may be deleted from outside
NextEnv == Step(1, SampleWidgets) \/ ExternalDelete
SpecEnv == Init /\ [][NextEnv]_vars

\* the estimator and the tips alone, over every valid input
InitCalc ==
    /\ file = Absent
    /\ pc = [s \in Sessions |-> IF s = 1 THEN "estimate" ELSE "start"]
    /\ \E ac \in BOOLEAN, fr \in BOOLEAN, wm \in BOOLEAN, so \in BOOLEAN,
          ht \in HomeTypes, fs \in FamilySizeMin..FamilySizeMax,
          temp \in TempMin..TempMax, dur \in DurationMin..DurationMax :
          inp = [s \in Sessions |->
                   IF s = 1 THEN Widget("2024-01-01", ac, fr, wm, so, ht, fs, temp, dur)
                   ELSE DefaultWidgets]
    /\ consumption = [s \in Sessions |-> 0]
    /\ tip = [s \in Sessions |-> ""]
    /\ csv_df = [s \in Sessions |-> EmptyFrame]
    /\ df = [s \in Sessions |-> EmptyFrame]
    /\ view = [s \in Sessions |-> NoView]
    /\ saved = <<>>

NextCalc == Estimate(1)
SpecCalc == InitCalc /\ [][NextCalc]_vars

(***************************************************************************)
(* Properties of the estimator and the tips (SpecCalc: session 1 holds one *)
(* valid input combination and applies calculate_consumption and           *)
(* get_energy_tips to it).                                                 *)
(***************************************************************************)
\* the widget values w with one field replaced
WithSolar(w, b) == [w EXCEPT !.solar_use = b]
WithFamily(w, n) == [w EXCEPT !.family_size = n]
WithDuration(w, n) == [w EXCEPT !.usage_duration = n]

\* C1: for every valid input combination calculate_consumption returns a
\* value >= 0.
C1_NonNegative ==
    /\ \A c \in Estimates(inp[1]) : c >= 0
    /\ pc[1] = "button" => consumption[1] >= 0

\* the smallest estimate: 1BHK, one person, solar only, one hour (0.125)
C1_Witness ==
    /\ pc[1] = "button"
    /\ inp[1].solar_use
    /\ consumption[1] <= 13

\* C4: get_energy_tips is a three-way threshold: above 15 the high message,
\* above 10 and up to 15 the moderate message, up to 10 the positive message;
\* 10.00 is positive, 10.01 and 15.00 are moderate, 15.01 is high.
C4_TipBands ==
    pc[1] = "button" =>
        /\ consumption[1] > 1500 => tip[1] = TipHigh
        /\ (consumption[1] > 1000 /\ consumption[1] <= 1500) => tip[1] = TipModerate
        /\ consumption[1] <= 1000 => tip[1] = TipLow
        /\ consumption[1] = 1000 => tip[1] = TipLow
        /\ consumption[1] = 1001 => tip[1] = TipModerate
        /\ consumption[1] = 1500 => tip[1] = TipModerate
        /\ consumption[1] = 1501 => tip[1] = TipHigh

\* an estimate of exactly 10.00 kWh got the positive message
C4_Witness ==
    /\ pc[1] = "button"
    /\ consumption[1] = 1000
    /\ tip[1] = TipLow

\* C5: with solar_use the estimate is never greater than without it, all
\* other inputs equal, and the reduction applied before the duration scaling
\* is min(60% of the pre-discount total, 10).
C5_SolarNeverIncreases ==
    LET w == inp[1]
        total == AdditiveBase(w.ac_use, w.fridge_use, w.wm_use, w.home_type,
                              w.family_size, w.outside_temp) * 10
        with == AfterSolar(w.ac_use, w.fridge_use, w.wm_use, TRUE, w.home_type,
                           w.family_size, w.outside_temp)
        without == AfterSolar(w.ac_use, w.fridge_use, w.wm_use, FALSE, w.home_type,
                              w.family_size, w.outside_temp)
    IN  /\ \A a \in Estimates(WithSolar(w, TRUE)) :
              \A b \in Estimates(WithSolar(w, FALSE)) : a <= b
        /\ without = total
        /\ total - with = Min((total * 60) \div 100, 1000)
        /\ (total * 60) % 100 = 0

\* a solar estimate whose reduction is capped at 10
C5_Witness ==
    /\ pc[1] = "button"
    /\ inp[1].solar_use
    /\ AdditiveBase(inp[1].ac_use, inp[1].fridge_use, inp[1].wm_use, inp[1].home_type,
                    inp[1].family_size, inp[1].outside_temp) * 6 > 1000
    /\ \A b \in Estimates(WithSolar(inp[1], FALSE)) : consumption[1] < b

\* C6: holding the other inputs fixed, the estimate is non-decreasing in
\* family_size over 1..10 and in usage_duration over 1..24, also with
\* solar_use and after the rounding to 2 decimals.
C6_Monotone ==
    LET w == inp[1]
    IN  /\ w.family_size < FamilySizeMax =>
              \A a \in Estimates(w) :
                  \A b \in Estimates(WithFamily(w, w.family_size + 1)) : a <= b
        /\ w.usage_duration < DurationMax =>
              \A a \in Estimates(w) :
                  \A b \in Estimates(WithDuration(w, w.usage_duration + 1)) : a <= b

\* a solar estimate, rounded from an exact half, with larger inputs to compare
C6_Witness ==
    /\ pc[1] = "button"
    /\ inp[1].solar_use
    /\ inp[1].family_size < FamilySizeMax
    /\ inp[1].usage_duration < DurationMax
    /\ Cardinality(Estimates(inp[1])) = 2

(***************************************************************************)
(* Properties of the record store and of main (Spec: one session).         *)
(***************************************************************************)
\* the table rows of the file, as read_csv types them
FileRows == read_csv(file).rows

\* the estimator applied to the other fields of a table row
RowEstimates(r) ==
    calculate_consumption(r.AC_Usage, r.Fridge_Usage, r.Washing_Machine_Usage,
                          r.Solar_Usage, r.Home_Type, r.Family_Size,
                          r.Outside_Temperature, r.Usage_Duration_Hours)

\* session s has completed save_to_csv in its current run
HasSaved(s) == pc[s] \in {"load", "content", "done"} /\ csv_df[s].columns = COLUMNS

RowsAreEstimates ==
    \A i \in 1..Len(FileRows) : FileRows[i].Total_Consumption \in RowEstimates(FileRows[i])

EarlierRowsKept ==
    /\ Len(file'.lines) >= Len(file.lines)
    /\ \A i \in 1..Len(file.lines) :
          /\ file'.lines[i] = file.lines[i]
          /\ ParseRow(file'.lines[i]) = ParseRow(file.lines[i])

\* C2: after any sequence of saves every row of the persisted table has
\* Total_Consumption equal to the estimate of that row's other fields, and a
\* later save never changes a row saved earlier (the table is append-only).
C2_RowsFrozen == [] RowsAreEstimates /\ [][EarlierRowsKept]_vars

\* a second save has just been written after a first one with other fields
C2_Witness ==
    /\ HasSaved(1)
    /\ pc[1] = "load"
    /\ Len(file.lines) >= 2
    /\ file.lines[1] # file.lines[2]

\* C3: in single-writer use, after the appends r1..rn load_data returns
\* exactly r1..rn in insertion order, duplicate dates kept; the last element
\* after append(r) equals r field for field.
C3_RoundTrip ==
    /\ load_data(file).rows = saved
    /\ pc[1] \in {"content", "done"} => df[1].rows = saved
    /\ (HasSaved(1) /\ pc[1] \in {"content", "done"}) =>
           df[1].rows[Len(df[1].rows)] = DataOf(inp[1], consumption[1])

\* three appends, two of them on the same date, were loaded back
C3_Witness ==
    /\ pc[1] = "content"
    /\ HasSaved(1)
    /\ Len(df[1].rows) = 3
    /\ df[1].rows[1].Date = df[1].rows[2].Date
    /\ df[1].rows[3].Date # df[1].rows[2].Date
    /\ df[1].rows[3].Total_Consumption % 10 # 0

\* C7: over a non-empty table and rate r, dailyCost[i] is
\* Total_Consumption[i] * r, monthlyCost is sum(dailyCost) * (30 / count) and
\* yearlyCost is monthlyCost * 12; one record of 10 kWh at rate 6 gives
\* dailyCost 60, monthlyCost 1800 and yearlyCost 21600.  (Costs in 1/10000.)
C7_CostProjection ==
    view[1].branch = "analytics" =>
        LET v == view[1]
            n == Len(df[1].rows)
        IN  /\ n >= 1
            /\ Len(v.daily_cost) = n
            /\ \A i \in 1..n :
                  v.daily_cost[i] = df[1].rows[i].Total_Consumption * v.electricity_rate
            /\ v.monthly_cost = [num |-> SumSeq(v.daily_cost) * 30, den |-> n]
            /\ v.yearly_cost = [num |-> v.monthly_cost.num * 12, den |-> v.monthly_cost.den]
            /\ (n = 1 /\ df[1].rows[1].Total_Consumption = 1000
                    /\ v.electricity_rate = 600) =>
                   /\ v.daily_cost = <<600000>>
                   /\ v.monthly_cost.num = 18000000 * v.monthly_cost.den
                   /\ v.yearly_cost.num = 216000000 * v.yearly_cost.den

\* the projection over the single record of 10 kWh at rate 6
C7_Witness ==
    /\ view[1].branch = "analytics"
    /\ Len(df[1].rows) = 1
    /\ df[1].rows[1].Total_Consumption = 1000
    /\ view[1].electricity_rate = 600
    /\ view[1].yearly_cost.num = 216000000 * view[1].yearly_cost.den

(***************************************************************************)
(* Properties of main against a file that may be missing (SpecEnv).        *)
(***************************************************************************)
HeaderOnly == [exists |-> TRUE, header |-> COLUMNS, lines |-> <<>>]

CreatesThenAppends ==
    \A s \in Sessions :
        \* initialize_csv on a missing file leaves the header alone
        /\ (pc[s] = "start" /\ pc'[s] = "widgets" /\ ~Exists(file)) => file' = HeaderOnly
        \* the save that follows holds exactly the one row
        /\ (pc[s] = "save_write" /\ pc'[s] = "load"
                /\ csv_df[s] = read_csv(HeaderOnly)) =>
               /\ Exists(file')
               /\ file'.header = COLUMNS
               /\ Len(file'.lines) = 1
               /\ ParseRow(file'.lines[1]) = DataOf(inp[s], consumption[s])
        \* load_data on a missing file returns the empty frame
        /\ (pc[s] = "load" /\ pc'[s] # "load" /\ ~Exists(file)) =>
               /\ pc'[s] = "content"
               /\ df'[s] = EmptyFrame
               /\ Len(df'[s].rows) = 0

C9_AnalyticsGuarded ==
    \A s \in Sessions :
        /\ view[s].branch = "analytics" =>
               /\ Len(df[s].rows) >= 1
               /\ view[s].days_tracked >= 1
               /\ view[s].avg_consumption.den >= 1
               /\ view[s].monthly_cost.den >= 1
               /\ view[s].yearly_cost.den >= 1
        /\ view[s].branch = "nodata" => Len(df[s].rows) = 0
        /\ pc[s] = "done" =>
               view[s].branch = (IF Len(df[s].rows) = 0 THEN "nodata" ELSE "analytics")

\* a run that saved a record, lost the file before load_data and took the
\* no-data branch
C9_Witness ==
    /\ pc[1] = "done"
    /\ HasSaved(1)
    /\ df[1] = EmptyFrame
    /\ view[1] = NoData

(***************************************************************************)
(* Properties of two sessions saving to the same file (SpecConc).          *)
(***************************************************************************)
\* both sessions saved in their current runs from the same table read
BothReadBeforeWrite == HasSaved(1) /\ HasSaved(2) /\ csv_df[1] = csv_df[2]

OnlyOneNewRow ==
    BothReadBeforeWrite =>
        /\ Len(file.lines) = Len(csv_df[1].rows) + 1
        /\ \E s \in Sessions :
              file = to_csv(concat(csv_df[s], DataOf(inp[s], consumption[s])))

SerialAppendKeepsRows ==
    \A s \in Sessions :
        (pc[s] = "save_write" /\ pc'[s] = "load" /\ csv_df[s] = read_csv(file)) =>
            file'.lines = Append(file.lines, FormatRow(DataOf(inp[s], consumption[s])))

\* C10: save_to_csv is a read-modify-write of the whole file without
\* locking: when both sessions read the table before either writes it back,
\* the final table holds only one of the two new rows; an append whose write
\* follows its own read with no write in between loses no row.
C10_LostUpdate == [] OnlyOneNewRow /\ [][SerialAppendKeepsRows]_vars

\* two saves completed and the table holds one row
C10_Witness ==
    /\ BothReadBeforeWrite
    /\ Len(saved) = 2
    /\ Len(file.lines) = 1
    /\ DataOf(inp[1], consumption[1]) # DataOf(inp[2], consumption[2])

====
